---- MODULE Spec2Model ----
(***************************************************************************)
(* Model of the housenumber sanitizer                                      *)
(* (src/nominatim_db/tokenizer/sanitizers/clean_housenumbers.py).          *)
(*                                                                         *)
(* A Python str is a sequence of one-character strings, so that matching,  *)
(* splitting, int() and str() are computed character by character.         *)
(* A PlaceName is a record [kind, name, suffix]; kind and suffix are only  *)
(* ever compared for equality and stay TLA+ strings.                       *)
(***************************************************************************)
EXTENDS Integers, Sequences, FiniteSets, TLC

VARIABLES config,       \* the sanitizer's fields, bound by __init__
          address,      \* obj.address
          names,        \* obj.names
          status,       \* "ready", "once", "twice" (calls returned) or "raised"
          pre_address,  \* obj.address as it was when the latest call started
          pre_names,    \* obj.names as it was when the latest call started
          segs,         \* per processed item of the latest call: what the loop put into new_address
          nsegs         \* per processed item of the latest call: what the loop appended to obj.names

vars == <<config, address, names, status, pre_address, pre_names, segs, nsegs>>

\* Longest address sequence of a record handed to the sanitizer.
MaxAddr == 3

---------------------------------------------------------------------------
(* Characters and strings *)

DecimalChars == <<"0", "1", "2", "3", "4", "5", "6", "7", "8", "9">>

\* What \d of RANGE_REGEX matches and what int() accepts.
IsDecimal(c) == \E d \in 1..10 : DecimalChars[d] = c

DigitVal(c) == (CHOOSE d \in 1..10 : DecimalChars[d] = c) - 1

\* str.isdigit() of a character: the decimal digits and also the digits
\* that are no decimals, such as SUPERSCRIPT TWO (written "^2" here).
CharIsDigit(c) == IsDecimal(c) \/ c = "^2"

\* str.isdigit(): a non-empty string of digit characters.
isdigit(s) == Len(s) > 0 /\ \A i \in 1..Len(s) : CharIsDigit(s[i])

AllDecimal(s) == Len(s) > 0 /\ \A i \in 1..Len(s) : IsDecimal(s[i])

\* int(s) raises ValueError unless s is a non-empty string of decimals.
IntRaises(s) == ~AllDecimal(s)

RECURSIVE int(_)
int(s) == IF Len(s) = 0 THEN 0
          ELSE int(SubSeq(s, 1, Len(s) - 1)) * 10 + DigitVal(s[Len(s)])

RECURSIVE str(_)
str(n) == IF n < 10 THEN <<DecimalChars[n + 1]>>
          ELSE str(n \div 10) \o <<DecimalChars[(n % 10) + 1]>>

\* RANGE_REGEX.fullmatch(s) for RANGE_REGEX = \d+-\d+
RANGE_REGEX_fullmatch(s) ==
    \E k \in 2..(Len(s) - 1) :
        /\ s[k] = "-"
        /\ AllDecimal(SubSeq(s, 1, k - 1))
        /\ AllDecimal(SubSeq(s, k + 1, Len(s)))

\* s.split(sep) for a one-character separator, and the split() of the
\* compiled delimiter expression: cut at every character of seps, empty
\* pieces included.
RECURSIVE split(_, _)
split(s, seps) ==
    IF \A i \in 1..Len(s) : s[i] \notin seps THEN <<s>>
    ELSE LET k == CHOOSE i \in 1..Len(s) :
                      s[i] \in seps /\ \A j \in 1..(i - 1) : s[j] \notin seps
         IN  <<SubSeq(s, 1, k - 1)>> \o split(SubSeq(s, k + 1, Len(s)), seps)

RECURSIVE Flatten(_)
Flatten(ss) == IF Len(ss) = 0 THEN <<>> ELSE Head(ss) \o Flatten(Tail(ss))

---------------------------------------------------------------------------
(* PlaceName and the configuration *)

\* PlaceName.clone(kind=..., name=...): a copy with kind and name replaced.
clone(item, kind, name) == [item EXCEPT !.kind = kind, !.name = name]

\* The predicate of config.get_filter('filter-kind', ['housenumber']).
filter_kind(cfg, kind) == kind \in cfg.filter_kind

\* The predicate of config.get_filter('convert-to-name', 'FAIL_ALL').
filter_name(cfg, value) == value \in cfg.filter_name

\* config.get_delimiter().split(value)
split_regexp_split(cfg, value) == split(value, cfg.delimiters)

---------------------------------------------------------------------------
(* The interpolation type of a record: None, an int or a str *)

None == [tag |-> "None", n |-> 0, s |-> <<>>]
IntType(n) == [tag |-> "int", n |-> n, s |-> <<>>]
StrType(s) == [tag |-> "str", n |-> 0, s |-> s]

all == <<"a", "l", "l">>
odd == <<"o", "d", "d">>
even == <<"e", "v", "e", "n">>

\* FirstInterpolation taking the last interpolation item instead of the first.
LastInterpolation(addr) ==
    IF \A i \in 1..Len(addr) : addr[i].kind # "interpolation" THEN None
    ELSE LET k == CHOOSE i \in 1..Len(addr) :
                      /\ addr[i].kind = "interpolation"
                      /\ \A j \in (i + 1)..Len(addr) : addr[j].kind # "interpolation"
         IN  StrType(addr[k].name)

\* next((i.name for i in obj.address if i.kind == 'interpolation'), None)
FirstInterpolation(addr) ==
    IF \A i \in 1..Len(addr) : addr[i].kind # "interpolation" THEN None
    ELSE LET k == CHOOSE i \in 1..Len(addr) :
                      /\ addr[i].kind = "interpolation"
                      /\ \A j \in 1..(i - 1) : addr[j].kind # "interpolation"
         IN  StrType(addr[k].name)

\* The first part of __call__: the interpolation type of the record.
\* raised: int(itype) raised ValueError.
InterpolationType(cfg, addr) ==
    IF ~cfg.expand_interpolations THEN [raised |-> FALSE, itype |-> None]
    ELSE LET found == FirstInterpolation(addr) IN
         IF found = None THEN [raised |-> FALSE, itype |-> None]
         ELSE IF found.s = all THEN [raised |-> FALSE, itype |-> IntType(1)]
         ELSE IF Len(found.s) = 1 /\ isdigit(found.s)
              THEN IF IntRaises(found.s) THEN [raised |-> TRUE, itype |-> None]
                   ELSE [raised |-> FALSE, itype |-> IntType(int(found.s))]
         ELSE IF found.s \notin {odd, even} THEN [raised |-> FALSE, itype |-> None]
         ELSE [raised |-> FALSE, itype |-> found]

---------------------------------------------------------------------------
(* _expand_range *)

\* range(first, stop, step) for step > 0
RECURSIVE range(_, _, _)
range(first, stop, step) ==
    IF first >= stop THEN <<>> ELSE <<first>> \o range(first + step, stop, step)

\* TrueDivLess with <= for <.
TrueDivLessOrEqual(a, b, c) == a <= c * b

\* a / b < c in true division, for b > 0 and c an integer
TrueDivLess(a, b, c) == a < c * b

\* _expand_range with range(first, last, step): the last number left out.
ExpandRangeExclusiveLast(itype, hnr) ==
    LET parts == split(hnr, {"-"})
        first0 == int(parts[1])
        last == int(parts[2])
        step == IF itype.tag = "int" THEN itype.n ELSE 2
        first == IF /\ itype.tag # "int"
                    /\ \/ (itype.s = even /\ first0 % 2 = 1)
                       \/ (itype.s = odd /\ first0 % 2 = 0)
                 THEN first0 + 1 ELSE first0
    IN  IF step = 0 THEN [raised |-> TRUE, hnrs |-> <<>>]
        ELSE IF TrueDivLess(last + 1 - first, step, 10)
             THEN [raised |-> FALSE, hnrs |-> range(first, last, step)]
             ELSE [raised |-> FALSE, hnrs |-> <<>>]

\* _expand_range(itype, hnr), called only on a hnr that RANGE_REGEX matches.
\* raised: the division by step raised ZeroDivisionError.
_expand_range(itype, hnr) ==
    LET parts == split(hnr, {"-"})
        first0 == int(parts[1])
        last == int(parts[2])
        step == IF itype.tag = "int" THEN itype.n ELSE 2
        first == IF /\ itype.tag # "int"
                    /\ \/ (itype.s = even /\ first0 % 2 = 1)
                       \/ (itype.s = odd /\ first0 % 2 = 0)
                 THEN first0 + 1 ELSE first0
    IN  IF step = 0 THEN [raised |-> TRUE, hnrs |-> <<>>]
        ELSE IF TrueDivLess(last + 1 - first, step, 10)
             THEN [raised |-> FALSE, hnrs |-> range(first, last + 1, step)]
             ELSE [raised |-> FALSE, hnrs |-> <<>>]

---------------------------------------------------------------------------
(* sanitize and _regularize *)

\* _regularize yielding the housenumber twice.
RegularizeTwice(hnr) == <<hnr, hnr>>

_regularize(hnr) == <<hnr>>

RECURSIVE RegularizeAll(_)
RegularizeAll(pieces) ==
    IF Len(pieces) = 0 THEN <<>>
    ELSE _regularize(Head(pieces)) \o RegularizeAll(Tail(pieces))

NonEmpty(hnr) == Len(hnr) > 0

\* sanitize without the test "if hnr".
SanitizeKeepsEmpty(cfg, value) == RegularizeAll(split_regexp_split(cfg, value))

\* sanitize(value): the housenumbers the value yields, in order.
sanitize(cfg, value) ==
    RegularizeAll(SelectSeq(split_regexp_split(cfg, value), NonEmpty))

---------------------------------------------------------------------------
(* __call__ *)

CloneEach(item, values) ==
    [k \in 1..Len(values) |-> clone(item, "housenumber", values[k])]

StrEach(hnrs) == [k \in 1..Len(hnrs) |-> str(hnrs[k])]

\* The branch for a value the convert-to-name filter matches, adding the
\* item to new_address as well.
NameBranchKeepsAddress(item) ==
    [raised |-> FALSE, addr |-> <<clone(item, "housenumber", item.name)>>,
     nm |-> <<clone(item, "housenumber", item.name)>>]

\* obj.names.append(item.clone(kind='housenumber'))
NameBranch(item) ==
    [raised |-> FALSE, addr |-> <<>>, nm |-> <<clone(item, "housenumber", item.name)>>]

\* The last branch appending every item, interpolation included.
PassThroughAll(item) == [raised |-> FALSE, addr |-> <<item>>, nm |-> <<>>]

\* The last branch appending a changed copy of the item.
PassThroughTouched(item) ==
    IF item.kind # "interpolation"
    THEN [raised |-> FALSE, addr |-> <<clone(item, "housenumber", item.name)>>, nm |-> <<>>]
    ELSE [raised |-> FALSE, addr |-> <<>>, nm |-> <<>>]

\* elif item.kind != 'interpolation': new_address.append(item)
PassThrough(item) ==
    IF item.kind # "interpolation"
    THEN [raised |-> FALSE, addr |-> <<item>>, nm |-> <<>>]
    ELSE [raised |-> FALSE, addr |-> <<>>, nm |-> <<>>]

\* One pass of the loop body of __call__ for item: what it puts into
\* new_address (addr), what it appends to obj.names (nm), or raised.
LoopBody(cfg, itype, item) ==
    LET try == itype # None /\ RANGE_REGEX_fullmatch(item.name)
        exp == IF try THEN _expand_range(itype, item.name)
               ELSE [raised |-> FALSE, hnrs |-> <<>>]
    IN  IF filter_kind(cfg, item.kind)
        THEN IF exp.raised THEN [raised |-> TRUE, addr |-> <<>>, nm |-> <<>>]
             ELSE IF Len(exp.hnrs) > 0
                  THEN [raised |-> FALSE, addr |-> CloneEach(item, StrEach(exp.hnrs)),
                        nm |-> <<>>]
             ELSE IF filter_name(cfg, item.name)
                  THEN NameBranch(item)
             ELSE [raised |-> FALSE, addr |-> CloneEach(item, sanitize(cfg, item.name)),
                   nm |-> <<>>]
        ELSE PassThrough(item)

\* The loop of __call__ from item i on. obj.names is appended to as the loop
\* goes; obj.address is assigned only after the loop, so a raise leaves it.
RECURSIVE Loop(_, _, _, _, _, _, _, _)
Loop(cfg, itype, addr, i, new_address, nm, sg, nsg) ==
    IF i > Len(addr)
    THEN [raised |-> FALSE, address |-> new_address, names |-> nm,
          segs |-> sg, nsegs |-> nsg]
    ELSE LET b == LoopBody(cfg, itype, addr[i]) IN
         IF b.raised
         THEN [raised |-> TRUE, address |-> addr, names |-> nm,
               segs |-> sg, nsegs |-> nsg]
         ELSE Loop(cfg, itype, addr, i + 1, new_address \o b.addr, nm \o b.nm,
                   Append(sg, b.addr), Append(nsg, b.nm))

\* __call__(obj)
CallResult(cfg, addr, nm) ==
    IF Len(addr) = 0
    THEN [raised |-> FALSE, address |-> addr, names |-> nm,
          segs |-> <<>>, nsegs |-> <<>>]
    ELSE LET t == InterpolationType(cfg, addr) IN
         IF t.raised
         THEN [raised |-> TRUE, address |-> addr, names |-> nm,
               segs |-> <<>>, nsegs |-> <<>>]
         ELSE Loop(cfg, t.itype, addr, 1, <<>>, nm, <<>>, <<>>)

---------------------------------------------------------------------------
(* Configurations and records *)

private == <<"p", "r", "i", "v">>
r12_16 == <<"1", "2", "-", "1", "6">>
r07_16 == <<"0", "7", "-", "1", "6">>
list == <<"1", "2", ";", "1", "4", ",", ",", "1", "6">>

\* The configuration with every option left out: filter-kind 'housenumber',
\* delimiters ',;', convert-to-name FAIL_ALL (matches nothing),
\* expand-interpolations true.
DefaultConfig ==
    [filter_kind |-> {"housenumber"}, delimiters |-> {",", ";"},
     filter_name |-> {}, expand_interpolations |-> TRUE]

\* The default, each option changed on its own, and all changed together.
Configs ==
    {DefaultConfig,
     [DefaultConfig EXCEPT !.expand_interpolations = FALSE],
     [DefaultConfig EXCEPT !.filter_kind = {"housenumber", "interpolation"}],
     [DefaultConfig EXCEPT !.filter_kind = {"conscriptionnumber"}],
     [DefaultConfig EXCEPT !.filter_name = {private, r12_16}],
     [DefaultConfig EXCEPT !.delimiters = {"-"}],
     [filter_kind |-> {"housenumber", "interpolation"}, delimiters |-> {"-"},
      filter_name |-> {private, r12_16, even}, expand_interpolations |-> FALSE]}

Item(kind, name, suffix) == [kind |-> kind, name |-> name, suffix |-> suffix]

InterpolationTokens == {all, odd, even, <<"0">>, <<"3">>, <<"1", "2">>, <<"^2">>}

Items ==
    {Item("interpolation", t, "") : t \in InterpolationTokens}
    \cup {Item("housenumber", r12_16, "left"),
          Item("housenumber", r07_16, ""),
          Item("housenumber", list, ""),
          Item("housenumber", private, "en"),
          Item("housenumber", <<";">>, ""),
          Item("street", <<"M", "a", "i", "n">>, "en"),
          Item("postcode", <<"9", "9">>, "")}

SeqsUpTo(S, n) == UNION {[1..k -> S] : k \in 0..n}

\* The names the record holds before the sanitizer runs.
ExistingNames == <<Item("name", <<"H", "a", "l", "l">>, "")>>

---------------------------------------------------------------------------
(* The state machine *)

Init ==
    /\ config \in Configs
    /\ address \in SeqsUpTo(Items, MaxAddr)
    /\ names = ExistingNames
    /\ status = "ready"
    /\ pre_address = address
    /\ pre_names = names
    /\ segs = <<>>
    /\ nsegs = <<>>

\* The pipeline applies the sanitizer to the record.
Call ==
    /\ status \in {"ready", "once"}
    /\ \E r \in {CallResult(config, address, names)} :
        /\ address' = r.address
        /\ names' = r.names
        /\ segs' = r.segs
        /\ nsegs' = r.nsegs
        /\ status' = IF r.raised THEN "raised"
                     ELSE IF status = "ready" THEN "once" ELSE "twice"
    /\ pre_address' = address
    /\ pre_names' = names
    /\ UNCHANGED config

Next == Call

Spec == Init /\ [][Next]_vars

---------------------------------------------------------------------------
(* Vocabulary of the properties, written from the specification's terms *)

\* The latest call returned: address and names are its output for the
\* record (pre_address, pre_names).
Returned == status \in {"once", "twice"}

HousenumberClassified(item) == item.kind \in config.filter_kind

HasInterpolation(addr) == \E i \in 1..Len(addr) : addr[i].kind = "interpolation"

\* The value of the first address item of kind interpolation.
FirstToken(addr) ==
    addr[CHOOSE i \in 1..Len(addr) :
             /\ addr[i].kind = "interpolation"
             /\ \A j \in 1..(i - 1) : addr[j].kind # "interpolation"].name

AsciiDigits == {<<DecimalChars[d]>> : d \in 1..10}

\* The directive is step-N with N in 1..9 or a parity.
Enabled(addr) ==
    /\ config.expand_interpolations
    /\ HasInterpolation(addr)
    /\ FirstToken(addr) \in ({all, odd, even} \cup AsciiDigits) \ {<<"0">>}

\* The token is one the directive discovery recognizes: 'all', 'odd',
\* 'even' or exactly one ASCII digit.
Recognized(addr) ==
    /\ config.expand_interpolations
    /\ HasInterpolation(addr)
    /\ FirstToken(addr) \in {all, odd, even} \cup AsciiDigits

StepOf(tok) == IF tok = all THEN 1
               ELSE IF tok \in {odd, even} THEN 2
               ELSE DigitVal(tok[1])

IsRange(value) == RANGE_REGEX_fullmatch(value)

RangeLow(value) == int(split(value, {"-"})[1])
RangeHigh(value) == int(split(value, {"-"})[2])

\* first: a, raised by one when the parity asks for it.
FirstOf(tok, a) ==
    IF (tok = even /\ a % 2 = 1) \/ (tok = odd /\ a % 2 = 0) THEN a + 1 ELSE a

\* (b + 1 - first) / step < 10
CountBelow10(tok, value) ==
    (RangeHigh(value) + 1 - FirstOf(tok, RangeLow(value))) < 10 * StepOf(tok)

\* The item with the kind set to housenumber and the given value, everything
\* else as in the source item.
Housenumber(item, value) ==
    [kind |-> "housenumber", name |-> value, suffix |-> item.suffix]

\* first, first + step, ... up to the largest such value not above b.
ExpectedNumbers(tok, value) ==
    LET first == FirstOf(tok, RangeLow(value))
        step == StepOf(tok)
        n == ((RangeHigh(value) - first) \div step) + 1
    IN  [k \in 1..n |-> str(first + (k - 1) * step)]

\* The item is range-expanded: enabled directive, range value, count < 10
\* and first <= b.
IsExpanded(addr, item) ==
    /\ HousenumberClassified(item)
    /\ Enabled(addr)
    /\ IsRange(item.name)
    /\ CountBelow10(FirstToken(addr), item.name)
    /\ FirstOf(FirstToken(addr), RangeLow(item.name)) <= RangeHigh(item.name)

\* The non-empty substrings between delimiters: maximal runs of
\* non-delimiter characters, left to right.
RunStarts(value, delims) ==
    {i \in 1..Len(value) : value[i] \notin delims /\ (i = 1 \/ value[i - 1] \in delims)}

RunEnd(value, delims, i) ==
    CHOOSE j \in i..Len(value) :
        /\ \A k \in i..j : value[k] \notin delims
        /\ (j = Len(value) \/ value[j + 1] \in delims)

Tokens(value, delims) ==
    LET starts == RunStarts(value, delims)
        nth(k) == CHOOSE i \in starts : Cardinality({j \in starts : j < i}) = k - 1
    IN  [k \in 1..Cardinality(starts) |->
            SubSeq(value, nth(k), RunEnd(value, delims, nth(k)))]

HousenumberEach(item, values) ==
    [k \in 1..Len(values) |-> Housenumber(item, values[k])]

IsPrefix(p, q) == Len(p) <= Len(q) /\ SubSeq(q, 1, Len(p)) = p

\* The output address is the per-item output laid out in the items' order.
InPosition == address = Flatten(segs) /\ Len(segs) = Len(pre_address)

---------------------------------------------------------------------------
(* The properties *)

\* C1: a call never raises an error; in particular not for a record whose
\* interpolation token is a single digit '0'..'9', whatever range values the
\* housenumbers hold.
C1_DigitTokenCompletes ==
    (HasInterpolation(pre_address) /\ FirstToken(pre_address) \in AsciiDigits)
        => status # "raised"

\* C2: after a call has returned, the address holds no item of kind
\* interpolation, under every configuration.
C2_NoInterpolationInOutput ==
    Returned => \A i \in 1..Len(address) : address[i].kind # "interpolation"

\* C2 case: a record with two interpolation items went through a
\* configuration whose filter-kind matches 'interpolation', and items came out.
C2_Witness ==
    /\ status = "once"
    /\ "interpolation" \in config.filter_kind
    /\ Cardinality({i \in 1..Len(pre_address) : pre_address[i].kind = "interpolation"}) >= 2
    /\ Len(address) > 0

\* C3: a housenumber-classified range item with an enabled directive,
\* count < 10 and first <= b yields, in its position, exactly the items
\* first, first+step, ... <= b as housenumbers with the source's other
\* attributes, and nothing in names.
C3_RangeExpansion ==
    Returned =>
        /\ InPosition
        /\ \A i \in 1..Len(pre_address) :
               IsExpanded(pre_address, pre_address[i]) =>
                   /\ segs[i] = HousenumberEach(pre_address[i],
                                    ExpectedNumbers(FirstToken(pre_address), pre_address[i].name))
                   /\ nsegs[i] = <<>>

\* C3 case: '12-16' with directive 'even' came out as 12, 14, 16 behind a
\* street item.
C3_Witness ==
    /\ status = "once"
    /\ Len(pre_address) = 3
    /\ pre_address[1].kind = "street"
    /\ pre_address[2] = Item("interpolation", even, "")
    /\ pre_address[3] = Item("housenumber", r12_16, "left")
    /\ address = <<pre_address[1],
                   Item("housenumber", <<"1", "2">>, "left"),
                   Item("housenumber", <<"1", "4">>, "left"),
                   Item("housenumber", <<"1", "6">>, "left")>>

\* What an item that is not expanded falls through to: names when the value
\* matches convert-to-name, the delimiter split otherwise.
FallsThrough(i) ==
    IF pre_address[i].name \in config.filter_name
    THEN /\ segs[i] = <<>>
         /\ nsegs[i] = <<Housenumber(pre_address[i], pre_address[i].name)>>
    ELSE /\ segs[i] = HousenumberEach(pre_address[i],
                          Tokens(pre_address[i].name, config.delimiters))
         /\ nsegs[i] = <<>>

\* C4: with count >= 10 the range is not expanded and falls through to name
\* reclassification / splitting; under the default configuration the address
\* holds exactly one item for it, a housenumber with the unchanged value.
C4_LargeRangeNotExpanded ==
    Returned =>
        \A i \in 1..Len(pre_address) :
            (/\ HousenumberClassified(pre_address[i])
             /\ Enabled(pre_address)
             /\ IsRange(pre_address[i].name)
             /\ ~CountBelow10(FirstToken(pre_address), pre_address[i].name))
            => /\ FallsThrough(i)
               /\ config = DefaultConfig =>
                      /\ segs[i] = <<Housenumber(pre_address[i], pre_address[i].name)>>
                      /\ InPosition

\* C4 case: '07-16' with directive 'all' has count exactly 10 and came out
\* unchanged under the default configuration.
C4_Witness ==
    /\ status = "once"
    /\ config = DefaultConfig
    /\ pre_address = <<Item("interpolation", all, ""), Item("housenumber", r07_16, "")>>
    /\ address = <<Item("housenumber", r07_16, "")>>

PassesThrough(item) == ~HousenumberClassified(item) /\ item.kind # "interpolation"

\* C5: the items that are neither housenumber-classified nor interpolation
\* come out identical, once each, in their input order and in their position
\* among the items produced from the others.
C5_PassThroughOrder ==
    Returned =>
        /\ InPosition
        /\ \A i \in 1..Len(pre_address) :
               PassesThrough(pre_address[i]) => segs[i] = <<pre_address[i]>>
        /\ SelectSeq(address, PassesThrough) = SelectSeq(pre_address, PassesThrough)

\* C5 case: two different pass-through items with a list-valued housenumber
\* between them.
C5_Witness ==
    /\ status = "once"
    /\ Len(pre_address) = 3
    /\ pre_address[1].kind = "street"
    /\ pre_address[2] = Item("housenumber", list, "")
    /\ pre_address[3].kind = "postcode"
    /\ Len(address) = 5
    /\ address[1] = pre_address[1]
    /\ address[5] = pre_address[3]

\* C6: a housenumber-classified item that is not range-expanded and whose
\* value matches convert-to-name adds exactly one item to the end of names, a
\* housenumber with the original value and attributes, and nothing to
\* address; the names of before stay, unchanged, as a prefix.
C6_NameReclassification ==
    /\ IsPrefix(pre_names, names)
    /\ Returned =>
        /\ names = pre_names \o Flatten(nsegs)
        /\ \A i \in 1..Len(pre_address) :
               (/\ HousenumberClassified(pre_address[i])
                /\ ~IsExpanded(pre_address, pre_address[i])
                /\ pre_address[i].name \in config.filter_name)
               => /\ nsegs[i] = <<Housenumber(pre_address[i], pre_address[i].name)>>
                  /\ segs[i] = <<>>

\* C6 case: 'priv' and an unexpanded '12-16' both went to names, behind the
\* name that was there.
C6_Witness ==
    /\ status = "once"
    /\ pre_address = <<Item("housenumber", private, "en"), Item("housenumber", r12_16, "left")>>
    /\ address = <<>>
    /\ names = pre_names \o pre_address
    /\ Len(pre_names) = 1

\* C7: a housenumber-classified item that is neither range-expanded nor
\* name-reclassified yields, in its position, one housenumber per non-empty
\* substring between delimiters, left to right; never an empty value; none
\* for a value of delimiters only.
C7_Splitting ==
    Returned =>
        /\ InPosition
        /\ \A i \in 1..Len(pre_address) :
               (/\ HousenumberClassified(pre_address[i])
                /\ ~IsExpanded(pre_address, pre_address[i])
                /\ pre_address[i].name \notin config.filter_name)
               => /\ segs[i] = HousenumberEach(pre_address[i],
                                   Tokens(pre_address[i].name, config.delimiters))
                  /\ nsegs[i] = <<>>
                  /\ \A k \in 1..Len(segs[i]) : Len(segs[i][k].name) > 0
                  /\ (\A c \in 1..Len(pre_address[i].name) :
                          pre_address[i].name[c] \in config.delimiters)
                     => segs[i] = <<>>

\* C7 case: '12;14,,16' came out as 12, 14, 16 and ';' as nothing.
C7_Witness ==
    /\ status = "once"
    /\ pre_address = <<Item("housenumber", list, ""), Item("housenumber", <<";">>, "")>>
    /\ address = <<Item("housenumber", <<"1", "2">>, ""),
                   Item("housenumber", <<"1", "4">>, ""),
                   Item("housenumber", <<"1", "6">>, "")>>

ClassifiedRange(item) == HousenumberClassified(item) /\ IsRange(item.name)

\* C8 as stated: unless expand-interpolations is true and the first
\* interpolation token is 'all', 'odd', 'even' or one digit, every range value
\* is emitted as the single unchanged token.
C8_UnexpandedIsSingleToken ==
    (Returned /\ ~Recognized(pre_address)) =>
        \A i \in 1..Len(pre_address) :
            ClassifiedRange(pre_address[i]) =>
                /\ segs[i] = <<Housenumber(pre_address[i], pre_address[i].name)>>
                /\ nsegs[i] = <<>>

HasDelimiter(value) == \E c \in 1..Len(value) : value[c] \in config.delimiters

\* C8 amended: unless expand-interpolations is true and the first
\* interpolation token is 'all', 'odd', 'even' or one digit, no range is
\* expanded: a range value is processed like any other value (to names when it
\* matches convert-to-name, split on the delimiters otherwise), and it is
\* emitted as the single unchanged token when it matches no convert-to-name
\* pattern and holds no configured delimiter.
C8_ExpansionOnlyIfRecognized ==
    (Returned /\ ~Recognized(pre_address)) =>
        \A i \in 1..Len(pre_address) :
            ClassifiedRange(pre_address[i]) =>
                /\ FallsThrough(i)
                /\ (~HasDelimiter(pre_address[i].name)
                    /\ pre_address[i].name \notin config.filter_name)
                   => /\ segs[i] = <<Housenumber(pre_address[i], pre_address[i].name)>>
                      /\ nsegs[i] = <<>>

\* C8 case: the first interpolation token is the multi-digit '12', a later
\* one is 'even', and '12-16' came out as the one token '12-16'.
C8_Witness ==
    /\ status = "once"
    /\ config.expand_interpolations
    /\ pre_address = <<Item("interpolation", <<"1", "2">>, ""),
                       Item("interpolation", even, ""),
                       Item("housenumber", r12_16, "left")>>
    /\ address = <<Item("housenumber", r12_16, "left")>>

\* Only housenumber items with single-token values that are no ranges, and
\* no interpolation item.
Regularized(addr) ==
    \A i \in 1..Len(addr) :
        /\ addr[i].kind = "housenumber"
        /\ ~HasDelimiter(addr[i].name)
        /\ ~IsRange(addr[i].name)

\* C9: for a record of only single-token, non-range housenumber items and no
\* interpolation item, a second application changes nothing: address and names
\* after two applications are those after one.
C9_SecondApplicationChangesNothing ==
    [][(status = "once" /\ Regularized(pre_address))
          => (status' = "twice" /\ address' = address /\ names' = names)]_vars

\* C9 case: the sanitizer ran twice on such a record that still holds a
\* housenumber, after the first run had moved one to names.
C9_Witness ==
    /\ status = "twice"
    /\ Regularized(pre_address)
    /\ Len(pre_address) > 0
    /\ Len(pre_names) = Len(ExistingNames) + 1
    /\ address = pre_address
    /\ names = pre_names

\* C10: an item of kind interpolation is dropped under every configuration:
\* it puts nothing into address and nothing into names.
C10_InterpolationDropped ==
    Returned =>
        \A i \in 1..Len(pre_address) :
            pre_address[i].kind = "interpolation" => (segs[i] = <<>> /\ nsegs[i] = <<>>)

====
